---- MODULE Spec2Model ----
(***************************************************************************)
(* A model of plot_color_thingy: the tree of data items, trends, plots,    *)
(* links and modifiers of demo.py, the plot instructions the tree yields,  *)
(* the redraw of the four plots, and the appearance hierarchy of           *)
(* formatting_inheritance.py.                                              *)
(*                                                                         *)
(* Values.  A Python str is a TLA+ string; None is the value None below.   *)
(* A dict is a function from its keys.  A value stored in plot_keywords is *)
(* a 4-tuple: Str(s) for a Python str, and cmap(scheme, pos) for the RGBA  *)
(* tuple a colormap returns at a position, the position being the exact    *)
(* quotient <<num, den>> in lowest terms of the float the code passes.     *)
(* The result of a call is a record: Ok(v) when it returns v, Raise(e)     *)
(* when it raises e.                                                       *)
(***************************************************************************)
EXTENDS Integers, Sequences, FiniteSets, TLC

VARIABLES
    kids,       \* tree widget: item -> the sequence of its children
    cfg,        \* the Modifier items created so far: cfg[i] configures <<"Modifier", i>>
    shown,      \* Plot item -> what its figure holds
    last,       \* the handler that ran last, and the plots it redrew
    nDrops,     \* drop events so far
    m_self,     \* a call of apply_modifier: the modifier it is called on
    m_in,       \* a call of apply_modifier: the list passed, as it was at the call
    m_arg,      \* a call of apply_modifier: the list passed, as the caller holds it
    m_res,      \* a call of apply_modifier: what it returned or raised
    m_pc,       \* a call of apply_modifier: "call" before, "done" after
    a_parent,   \* appearance hierarchy: container -> its appearance_parent
    a_own,      \* appearance hierarchy: container -> its instance attribute `appearance`
    a_class,    \* appearance hierarchy: container -> its class
    a_children  \* appearance hierarchy: container -> its children list

vars == <<kids, cfg, shown, last, nDrops, m_self, m_in, m_arg, m_res, m_pc,
          a_parent, a_own, a_class, a_children>>

treeVars == <<kids, cfg, shown, last, nDrops>>
modVars == <<m_self, m_in, m_arg, m_res, m_pc>>
appVars == <<a_parent, a_own, a_class, a_children>>

----------------------------------------------------------------------------
(* Bounds of the model *)

\* button presses in a run
MaxPresses == 2
\* drop events in a run in which only Modifier items are dragged
MaxModifierDrops == 2
\* drop events in a run in which any item is dragged
MaxItemDrops == 1
\* longest list handed to apply_modifier under SpecApply
MaxLen == 3
\* containers added to the appearance hierarchy
MaxContainers == 2

----------------------------------------------------------------------------
(* Python values *)

None == "<None>"

Ok(v) == [ok |-> TRUE, val |-> v, err |-> ""]
Raise(e) == [ok |-> FALSE, val |-> <<>>, err |-> e]

Str(s) == <<"str", s, 0, 0>>

RECURSIVE GCD(_, _)
GCD(a, b) == IF b = 0 THEN a ELSE GCD(b, a % b)

\* a / b for b # 0, as the exact quotient in lowest terms
TrueDiv(a, b) == LET g == GCD(a, b) IN <<a \div g, b \div g>>

\* the colour colormap `scheme` gives at position pos = <<num, den>>
cmap(scheme, pos) == <<"rgba", scheme, pos[1], pos[2]>>

\* d[k] = v on a dict
SetItem(d, k, v) == [key \in (DOMAIN d) \cup {k} |-> IF key = k THEN v ELSE d[key]]

PlotInstruction(plot_keywords, x, y) ==
    [plot_keywords |-> plot_keywords, x |-> x, y |-> y]

\* the colormaps the buttons name, registered in matplotlib.colormaps
KnownColormaps == {"jet", "spring", "gray"}

----------------------------------------------------------------------------
(* Modifiers *)

DataModifier(color, linestyle) ==
    [class |-> "DataModifier", color |-> color, linestyle |-> linestyle,
     color_scheme |-> None]

TrendModifier(color_scheme) ==
    [class |-> "TrendModifier", color |-> None, linestyle |-> None,
     color_scheme |-> color_scheme]

\* Faulty variant of TrendColor: the position is index/n
TrendColorOverN(color_scheme, index, n) ==
    IF n = 0 THEN Raise("ZeroDivisionError")
    ELSE Ok(cmap(color_scheme, TrueDiv(index, n)))

\* cmap(index/(n-1)) of TrendModifier.apply_modifier
TrendColor(color_scheme, index, n) ==
    IF n - 1 = 0 THEN Raise("ZeroDivisionError")
    ELSE Ok(cmap(color_scheme, TrueDiv(index, n - 1)))

\* The loop of TrendModifier.apply_modifier from 0-based `index` on
RECURSIVE TrendLoop(_, _, _, _)
TrendLoop(self, instructions, index, out) ==
    IF index = Len(instructions) THEN Ok(out)
    ELSE LET n == Len(instructions)
             instruction == instructions[index + 1]
             color == TrendColor(self.color_scheme, index, n)
         IN  IF ~color.ok THEN Raise(color.err)
             ELSE LET new_dict == SetItem(instruction.plot_keywords, "color", color.val)
                  IN  TrendLoop(self, instructions, index + 1,
                          Append(out, PlotInstruction(new_dict, instruction.x, instruction.y)))

TrendModifier_apply_modifier(self, instructions) ==
    IF self.color_scheme \notin KnownColormaps
    THEN Raise("KeyError")
    ELSE TrendLoop(self, instructions, 0, <<>>)

\* Faulty variant of DataModifierStep: new_dict is the instruction's own dict, not a
\* copy, so the writes reach the caller's list
DataModifierStepNoCopy(self, st, i) ==
    LET instruction == st.arg[i]
        d1 == IF self.color # None
              THEN SetItem(instruction.plot_keywords, "color", Str(self.color))
              ELSE instruction.plot_keywords
        d2 == IF self.linestyle # None
              THEN SetItem(d1, "linestyle", Str(self.linestyle))
              ELSE d1
    IN  [arg |-> [st.arg EXCEPT ![i].plot_keywords = d2],
         out |-> Append(st.out, PlotInstruction(d2, instruction.x, instruction.y))]

\* One iteration of the loop of DataModifier.apply_modifier, on the i-th
\* instruction.  new_dict is a copy: st.arg is left as it was.
DataModifierStep(self, st, i) ==
    LET instruction == st.arg[i]
        copy == instruction.plot_keywords
        d1 == IF self.color # None
              THEN SetItem(copy, "color", Str(self.color))
              ELSE copy
        d2 == IF self.linestyle # None
              THEN SetItem(d1, "linestyle", Str(self.linestyle))
              ELSE d1
    IN  [arg |-> st.arg,
         out |-> Append(st.out, PlotInstruction(d2, instruction.x, instruction.y))]

RECURSIVE DataLoop(_, _, _)
DataLoop(self, st, i) ==
    IF i > Len(st.arg) THEN st
    ELSE DataLoop(self, DataModifierStep(self, st, i), i + 1)

DataModifier_apply_modifier(self, instructions) ==
    Ok(DataLoop(self, [arg |-> instructions, out |-> <<>>], 1).out)

\* modifier.apply_modifier(instructions): the value returned or the exception
\* raised
apply_modifier(self, instructions) ==
    IF self.class = "TrendModifier"
    THEN TrendModifier_apply_modifier(self, instructions)
    ELSE DataModifier_apply_modifier(self, instructions)

\* the list the caller passed to modifier.apply_modifier, after the call
ArgAfter(self, instructions) ==
    IF self.class = "TrendModifier" THEN instructions
    ELSE DataLoop(self, [arg |-> instructions, out |-> <<>>], 1).arg

----------------------------------------------------------------------------
(* The tree: items are <<kind, index>> *)

TreeRoot == <<"Tree", 0>>            \* the tree widget's invisible root
DataRoot == <<"DataRoot", 0>>
TrendsRoot == <<"TrendsRoot", 0>>
PlotRoot == <<"PlotRoot", 0>>
Plot(i) == <<"Plot", i>>             \* self.plot1 .. self.plot4
DataItem(i) == <<"DataItem", i>>     \* datas[i]
TrendItem(i) == <<"TrendItem", i>>   \* trends[i]
DataLink(i) == <<"DataLink", i>>     \* the i-th DataLink created
TrendLink(i) == <<"TrendLink", i>>   \* the i-th TrendLink created
ModifierItem(i) == <<"Modifier", i>> \* the i-th Modifier created

\* The tree of TestWindow.__init__, scaled: of its ten DataItems the model
\* keeps datas[0..3] (the only ones a plot links to), and each of the two
\* trends links two of them instead of five.  The plots are as built.
\* datas[k].create_link() calls in order: the source index k of each DataLink
DataLinkSrc == <<0, 1, 2, 3, 0, 1, 0, 1, 3>>
\* trends[i].create_link() calls, in order
TrendLinkSrc == <<0, 0, 1>>

Plots == <<Plot(1), Plot(2), Plot(3), Plot(4)>>
DataItems == {DataItem(i) : i \in 0..3}
TrendItems == {TrendItem(i) : i \in 0..1}
DataLinks == {DataLink(i) : i \in 1..Len(DataLinkSrc)}
TrendLinks == {TrendLink(i) : i \in 1..Len(TrendLinkSrc)}
ModifierItems == {ModifierItem(i) : i \in 1..MaxPresses}

Range(s) == {s[i] : i \in 1..Len(s)}

BuiltItems == {DataRoot, TrendsRoot, PlotRoot} \cup Range(Plots) \cup DataItems
                  \cup TrendItems \cup DataLinks \cup TrendLinks
AllItems == {TreeRoot} \cup BuiltItems \cup ModifierItems

Kind(item) == item[1]
IsModifier(item) == Kind(item) = "Modifier"
IsDataLink(item) == Kind(item) = "DataLink"
IsPlottable(item) ==
    Kind(item) \in {"DataItem", "DataLink", "TrendItem", "TrendLink", "Plot"}

\* self.src of a DataLink or TrendLink
src(item) ==
    IF Kind(item) = "DataLink" THEN DataItem(DataLinkSrc[item[2]])
    ELSE TrendItem(TrendLinkSrc[item[2]])

\* the tree TestWindow.__init__ builds
BuiltTree ==
    [item \in AllItems |->
        CASE item = TreeRoot -> <<DataRoot, TrendsRoot, PlotRoot>>
          [] item = DataRoot -> [i \in 1..4 |-> DataItem(i - 1)]
          [] item = TrendsRoot -> <<TrendItem(0), TrendItem(1)>>
          [] item = TrendItem(0) -> <<DataLink(1), DataLink(2)>>
          [] item = TrendItem(1) -> <<DataLink(3), DataLink(4)>>
          [] item = PlotRoot -> Plots
          [] item = Plot(1) -> <<DataLink(5), DataLink(6)>>
          [] item = Plot(2) -> <<DataLink(7), DataLink(8), DataLink(9)>>
          [] item = Plot(3) -> <<TrendLink(1)>>
          [] item = Plot(4) -> <<TrendLink(2), TrendLink(3)>>
          [] OTHER -> <<>>]

\* the items in the tree widget below `item`, `item` included
RECURSIVE Subtree(_, _)
Subtree(k, item) ==
    {item} \cup UNION {Subtree(k, k[item][i]) : i \in 1..Len(k[item])}

InTree(k) == Subtree(k, TreeRoot) \ {TreeRoot}

\* item.parent(), the invisible root for a top-level item
Parent(k, item) == CHOOSE p \in AllItems : item \in Range(k[p])

Remove(s, e) == SelectSeq(s, LAMBDA c : c # e)
InsertAt(s, row, e) == SubSeq(s, 1, row) \o <<e>> \o SubSeq(s, row + 1, Len(s))

----------------------------------------------------------------------------
(* Plottable *)

\* Plottable.modifiers
modifiers(k, self) == SelectSeq(k[self], IsModifier)

\* flatten
RECURSIVE flatten(_)
flatten(data) == IF data = <<>> THEN <<>> ELSE Head(data) \o flatten(Tail(data))

\* Faulty variant of TrendItemCalls: every Plottable child is flattened
TrendItemCallsAnyPlottable(k, self) == SelectSeq(k[self], IsPlottable)

\* the children TrendItem.referenced_plot_instructions calls plot_instructions on
TrendItemCalls(k, self) == SelectSeq(k[self], IsDataLink)

\* Faulty variant of PlotCalls: the children are taken last to first
PlotCallsReversed(k, self) ==
    LET cs == SelectSeq(k[self], IsPlottable)
    IN  [i \in 1..Len(cs) |-> cs[Len(cs) + 1 - i]]

\* the children Plot.referenced_plot_instructions calls plot_instructions on
PlotCalls(k, self) == SelectSeq(k[self], IsPlottable)

\* the items whose plot_instructions the referenced_plot_instructions of
\* `self` calls, in call order
Calls(k, self) ==
    CASE Kind(self) \in {"DataLink", "TrendLink"} -> <<src(self)>>
      [] Kind(self) = "TrendItem" -> TrendItemCalls(k, self)
      [] Kind(self) = "Plot" -> PlotCalls(k, self)
      [] OTHER -> <<>>

\* A chain of calls longer than this passes through some item twice, and so
\* never ends: Python cuts it with RecursionError.
CallDepth == Cardinality(AllItems)

\* self.x, self.y of a DataItem: the same linspace for all, a sinusoid of its own
DataX == <<0, 10, 100>>
DataY(self) == self[2]

\* for modifier in ms: out = modifier.apply_modifier(out)
RECURSIVE ApplyChain(_, _, _)
ApplyChain(c, ms, out) ==
    IF ms = <<>> \/ ~out.ok THEN out
    ELSE ApplyChain(c, Tail(ms), apply_modifier(c[Head(ms)[2]], out.val))

\* Faulty variant of ChainOrder: the modifiers are applied last child first
ChainOrderReversed(ms) == [i \in 1..Len(ms) |-> ms[Len(ms) + 1 - i]]

\* the order in which plot_instructions applies self.modifiers()
ChainOrder(ms) == ms

RECURSIVE plot_instructions(_, _, _, _), referenced_plot_instructions(_, _, _, _),
          CallAll(_, _, _, _)

\* Faulty variant of LinkReferenced: the link reads its source's unmodified instructions
LinkReferencedRaw(k, c, self, depth) ==
    referenced_plot_instructions(k, c, src(self), depth)

\* DataLink / TrendLink.referenced_plot_instructions: self.src.plot_instructions()
LinkReferenced(k, c, self, depth) ==
    plot_instructions(k, c, src(self), depth - 1)

\* [child.plot_instructions() for child in cs], or the first exception raised
CallAll(k, c, cs, depth) ==
    IF cs = <<>> THEN Ok(<<>>)
    ELSE LET first == plot_instructions(k, c, Head(cs), depth)
         IN  IF ~first.ok THEN first
             ELSE LET rest == CallAll(k, c, Tail(cs), depth)
                  IN  IF ~rest.ok THEN rest ELSE Ok(<<first.val>> \o rest.val)

referenced_plot_instructions(k, c, self, depth) ==
    CASE Kind(self) = "DataItem" ->
            Ok(<<PlotInstruction(<<>>, DataX, DataY(self))>>)
      [] Kind(self) \in {"DataLink", "TrendLink"} ->
            LinkReferenced(k, c, self, depth)
      [] OTHER ->
            LET lists == CallAll(k, c, Calls(k, self), depth - 1)
            IN  IF lists.ok THEN Ok(flatten(lists.val)) ELSE lists

\* Plottable.plot_instructions, `depth` calls deep at most
plot_instructions(k, c, self, depth) ==
    IF depth = 0 THEN Raise("RecursionError")
    ELSE ApplyChain(c, ChainOrder(modifiers(k, self)),
                    referenced_plot_instructions(k, c, self, depth))

\* plot_instructions() of `self` in the current tree
PI(self) == plot_instructions(kids, cfg, self, CallDepth)
\* referenced_plot_instructions() of `self` in the current tree
RPI(self) == referenced_plot_instructions(kids, cfg, self, CallDepth)

----------------------------------------------------------------------------
(* The window: redraw, drop events, buttons *)

\* a Figure: the series plotted on its axes, and whether canvas.draw() has
\* run since they were plotted
NewFigure == [series |-> <<>>, drawn |-> FALSE]

\* Plot.updatePlot: the figure is cleared, then plot_instructions() is
\* plotted and the canvas drawn; an exception of plot_instructions() leaves
\* the cleared figure and goes to the caller
updatePlot(k, c, self) ==
    LET r == plot_instructions(k, c, self, CallDepth)
    IN  IF r.ok THEN [figure |-> [series |-> r.val, drawn |-> TRUE], raised |-> FALSE]
        ELSE [figure |-> NewFigure, raised |-> TRUE]

\* TestWindow.updatePlots from self.plot<i> on: plot1 .. plot4 in turn, the
\* first exception ending it
RECURSIVE updatePlotsFrom(_, _, _, _)
updatePlotsFrom(k, c, st, i) ==
    IF i > Len(Plots) THEN st
    ELSE LET r == updatePlot(k, c, Plots[i])
             shown1 == [st.shown EXCEPT ![Plots[i]] = r.figure]
         IN  IF r.raised
             THEN [shown |-> shown1, redrawn |-> st.redrawn, raised |-> TRUE]
             ELSE updatePlotsFrom(k, c,
                      [shown |-> shown1, redrawn |-> st.redrawn \cup {Plots[i]},
                       raised |-> FALSE], i + 1)

updatePlots(k, c, sh) ==
    updatePlotsFrom(k, c, [shown |-> sh, redrawn |-> {}, raised |-> FALSE], 1)

\* the buttons of TestWindow.__init__ the model presses: Blue, Dash and Jet,
\* one of each row of three (the others of a row differ in the string they
\* carry only)
Buttons ==
    {DataModifier("b", None), DataModifier(None, "dashed"), TrendModifier("jet")}

\* the tree after QTreeWidget.dropEvent moved `item` to row `row` of `target`
Moved(k, item, target, row) ==
    LET from == Parent(k, item)
        k1 == [k EXCEPT ![from] = Remove(@, item)]
    IN  [k1 EXCEPT ![target] = InsertAt(@, row, item)]

\* where QTreeWidget.dropEvent lets `item` be dropped: on or between the
\* children of any item that is not `item` or below it, or at the top level
DropTargets(k, item) == (InTree(k) \cup {TreeRoot}) \ Subtree(k, item)
DropRows(k, item, target) == 0..Len(Remove(k[target], item))

\* DropSensitiveTree.dropEvent: the tree widget moves the dragged item, then
\* itemDropped runs updatePlots
dropEvent(item, target, row) ==
    /\ LET k == Moved(kids, item, target, row)
           st == updatePlots(k, cfg, shown)
       IN  /\ kids' = k
           /\ shown' = st.shown
           /\ last' = [handler |-> "dropEvent", redrawn |-> st.redrawn,
                       raised |-> st.raised]
    /\ nDrops' = nDrops + 1
    /\ UNCHANGED <<cfg, modVars, appVars>>

\* the action of addDataModifier / addTrendModifier: a new top-level Modifier
clicked(button) ==
    /\ cfg' = Append(cfg, button)
    /\ kids' = [kids EXCEPT ![TreeRoot] = Append(@, ModifierItem(Len(cfg) + 1))]
    /\ last' = [handler |-> "clicked", redrawn |-> {}, raised |-> FALSE]
    /\ UNCHANGED <<shown, nDrops, modVars, appVars>>

\* no call of apply_modifier in progress
NoCall == /\ m_self = TrendModifier("jet") /\ m_in = <<>> /\ m_arg = <<>>
          /\ m_res = Ok(<<>>) /\ m_pc = "idle"

\* no appearance hierarchy built
NoHierarchy == a_parent = <<>> /\ a_own = <<>> /\ a_class = <<>> /\ a_children = <<>>

\* the window as TestWindow.__init__ leaves it
Window ==
    /\ kids = BuiltTree
    /\ cfg = <<>>
    /\ LET st == updatePlots(BuiltTree, <<>>, [p \in Range(Plots) |-> NewFigure])
       IN  /\ shown = st.shown
           /\ last = [handler |-> "__init__", redrawn |-> st.redrawn,
                      raised |-> st.raised]
    /\ nDrops = 0

\* TestWindow.__init__: the tree is built and updatePlots runs
Init == Window /\ NoCall /\ NoHierarchy

Press == \E button \in Buttons : Len(cfg) < MaxPresses /\ clicked(button)

\* the user drags any item
DropItem ==
    /\ nDrops < MaxItemDrops
    /\ \E item \in InTree(kids) :
       \E target \in DropTargets(kids, item) :
       \E row \in DropRows(kids, item, target) : dropEvent(item, target, row)

\* the user drags a Modifier
DropModifier ==
    /\ nDrops < MaxModifierDrops
    /\ \E item \in InTree(kids) \cap ModifierItems :
       \E target \in DropTargets(kids, item) :
       \E row \in DropRows(kids, item, target) : dropEvent(item, target, row)

Next == Press \/ DropItem
Spec == Init /\ [][Next]_vars

NextModifiers == Press \/ DropModifier
SpecModifiers == Init /\ [][NextModifiers]_vars

----------------------------------------------------------------------------
(* A call of apply_modifier on a list built by the caller *)

\* the dicts of the instructions passed: with and without the keys a
\* modifier sets, and with a key none sets
KeywordDicts ==
    {<<>>,
     [key \in {"color"} |-> Str("g")],
     [key \in {"linestyle", "marker"} |-> IF key = "marker" THEN Str("o") ELSE Str("dotted")],
     [key \in {"color", "linestyle"} |->
         IF key = "color" THEN cmap("gray", <<1, 2>>) ELSE Str("solid")]}

Instructions == {PlotInstruction(d, DataX, y) : d \in KeywordDicts, y \in 0..1}

ListsUpTo(n) == UNION {[1..len -> Instructions] : len \in 0..n}

\* the modifiers called: every DataModifier(color, linestyle) with each
\* argument given or left None, and a TrendModifier
ModifiersCalled ==
    {DataModifier(color, linestyle) : color \in {None, "r"}, linestyle \in {None, "dashed"}}
        \cup {TrendModifier("jet")}

InitApply ==
    /\ Window /\ NoHierarchy
    /\ m_self \in ModifiersCalled
    /\ m_in \in ListsUpTo(MaxLen)
    /\ m_arg = m_in
    /\ m_res = Ok(<<>>)
    /\ m_pc = "call"

\* out = m_self.apply_modifier(m_arg)
Apply ==
    /\ m_pc = "call"
    /\ m_res' = apply_modifier(m_self, m_arg)
    /\ m_arg' = ArgAfter(m_self, m_arg)
    /\ m_pc' = "done"
    /\ UNCHANGED <<m_self, m_in, treeVars, appVars>>

NextApply == Apply
SpecApply == InitApply /\ [][NextApply]_vars

----------------------------------------------------------------------------
(* formatting_inheritance.py: the appearance hierarchy *)

Appearance(colour, trend_scheme) == [colour |-> colour, trend_scheme |-> trend_scheme]

\* Appearance.override
override(self, other) ==
    LET colour == IF other.colour = None THEN self.colour ELSE other.colour
        trend_scheme == IF other.trend_scheme = None THEN self.trend_scheme
                        ELSE other.trend_scheme
    IN  Appearance(colour, trend_scheme)

\* containers are numbered in the order they are constructed, the root first
Root == 0
Containers == DOMAIN a_class

\* AppearanceContainer.__init__, which Default inherits: the instance
\* attribute `appearance` is set to Appearance()
Construct(class, appearance_parent) ==
    LET self == Cardinality(Containers)
    IN  /\ a_class' = (self :> class) @@ a_class
        /\ a_parent' = (self :> appearance_parent) @@ a_parent
        /\ a_own' = (self :> Appearance(None, None)) @@ a_own
        /\ a_children' = (self :> <<>>) @@ a_children

\* the function AppearanceContainer.appearance or Default.appearance of the
\* class, applied to `self`.  self.appearance_parent.appearance is the
\* parent's attribute, and is not called.
ClassAppearance(self) ==
    IF a_class[self] = "Default" THEN Appearance("k", "jet")
    ELSE override(a_own[a_parent[self]], a_own[self])

\* self.appearance: the instance attribute set by __init__ is found before
\* the method of the class
GetAppearance(self) == a_own[self]

\* self.appearance(): the attribute found is an Appearance, which cannot be
\* called
CallAppearance(self) == Raise("TypeError")

\* the hierarchy starts as its root, Default(None) (None is -1 among the numbers)
InitAppearance ==
    /\ Window /\ NoCall
    /\ a_class = (Root :> "Default")
    /\ a_parent = (Root :> -1)
    /\ a_own = (Root :> Appearance(None, None))
    /\ a_children = (Root :> <<>>)

\* AppearanceContainer(appearance_parent)
NewContainer ==
    \E parent \in Containers :
        /\ Cardinality(Containers) <= MaxContainers
        /\ Construct("AppearanceContainer", parent)
        /\ UNCHANGED <<treeVars, modVars>>

\* self.appearance.colour = colour
SetColour ==
    \E self \in Containers, colour \in {"r", "b"} :
        /\ a_own[self].colour = None
        /\ a_own' = [a_own EXCEPT ![self].colour = colour]
        /\ UNCHANGED <<a_parent, a_class, a_children, treeVars, modVars>>

\* self.appearance.trend_scheme = trend_scheme
SetTrendScheme ==
    \E self \in Containers, trend_scheme \in {"gray"} :
        /\ a_own[self].trend_scheme = None
        /\ a_own' = [a_own EXCEPT ![self].trend_scheme = trend_scheme]
        /\ UNCHANGED <<a_parent, a_class, a_children, treeVars, modVars>>

\* AppearanceContainer.add, of a container to the one it was constructed under
add ==
    \E self \in Containers, child \in Containers :
        /\ child # Root /\ a_parent[child] = self
        /\ child \notin Range(a_children[self])
        /\ a_children' = [a_children EXCEPT ![self] = Append(@, child)]
        /\ UNCHANGED <<a_parent, a_own, a_class, treeVars, modVars>>

NextAppearance == NewContainer \/ SetColour \/ SetTrendScheme \/ add
SpecAppearance == InitAppearance /\ [][NextAppearance]_vars

----------------------------------------------------------------------------
(* Properties *)

Links == DataLinks \cup TrendLinks
Plottables == {item \in BuiltItems : IsPlottable(item)}
Drawn(series) == [series |-> series, drawn |-> TRUE]

\* C1 as stated: in every reachable tree, plot_instructions() of a DataLink
\* or TrendLink equals plot_instructions() of its source at the same moment.
C1_LinkTransparent ==
    \A l \in Links : PI(l) = PI(src(l))

\* C1 amended: a link with no Modifier child of its own yields, in every
\* reachable tree, exactly what its source's plot_instructions() yields at
\* the same moment (the source's modifiers included, and its exception when
\* it raises); a link reads src.plot_instructions() before its own modifiers.
C1_LinkReadsThrough ==
    \A l \in Links :
        /\ RPI(l) = PI(src(l))
        /\ (\A i \in 1..Len(kids[l]) : ~IsModifier(kids[l][i])) => PI(l) = PI(src(l))

\* C1 witness: a link without modifiers shows a modifier given to its source
\* after the link was made.
C1_Witness ==
    \E l \in Links :
        /\ \A i \in 1..Len(kids[l]) : ~IsModifier(kids[l][i])
        /\ \E i \in 1..Len(kids[src(l)]) : IsModifier(kids[src(l)][i])
        /\ PI(l).ok
        /\ \E i \in 1..Len(PI(l).val) : PI(l).val[i].plot_keywords # <<>>

\* does the modifier configured by m write `key`
Sets(m, key) ==
    \/ key = "color" /\ (m.class = "TrendModifier" \/ m.color # None)
    \/ key = "linestyle" /\ m.class = "DataModifier" /\ m.linestyle # None

\* the rows of `item` that hold a Modifier writing `key`
Setters(item, key) ==
    {r \in 1..Len(kids[item]) :
        IsModifier(kids[item][r]) /\ Sets(cfg[kids[item][r][2]], key)}

Max(S) == CHOOSE x \in S : \A y \in S : y <= x

\* what the modifier configured by m writes under `key` in the index-th
\* (0-based) of n instructions
Written(m, key, index, n) ==
    IF m.class = "TrendModifier" THEN cmap(m.color_scheme, TrueDiv(index, n - 1))
    ELSE IF key = "color" THEN Str(m.color) ELSE Str(m.linestyle)

HasTrendModifier(item) ==
    \E r \in 1..Len(kids[item]) :
        IsModifier(kids[item][r]) /\ cfg[kids[item][r][2]].class = "TrendModifier"

\* C2: plot_instructions() of a node is its referenced instructions with the
\* node's Modifier children applied in child order, each to the previous
\* one's output: the instructions keep their count, order and payload, and
\* each key holds what the last Modifier child writing it wrote, or what the
\* referenced instruction held when none does; children that are no
\* Modifier change nothing.
C2_ModifierFold ==
    \A item \in Plottables :
        LET ref == RPI(item)
            out == PI(item)
            n == Len(ref.val)
        IN  IF ~ref.ok THEN out = ref
            ELSE IF n = 1 /\ HasTrendModifier(item) THEN out = Raise("ZeroDivisionError")
            ELSE /\ out.ok
                 /\ Len(out.val) = n
                 /\ \A i \in 1..n :
                      /\ out.val[i].x = ref.val[i].x
                      /\ out.val[i].y = ref.val[i].y
                      /\ DOMAIN out.val[i].plot_keywords \subseteq {"color", "linestyle"}
                      /\ \A key \in {"color", "linestyle"} :
                           LET before == ref.val[i].plot_keywords
                               after == out.val[i].plot_keywords
                           IN  IF Setters(item, key) = {}
                               THEN /\ (key \in DOMAIN after) = (key \in DOMAIN before)
                                    /\ key \in DOMAIN before => after[key] = before[key]
                               ELSE LET r == Max(Setters(item, key))
                                    IN  /\ key \in DOMAIN after
                                        /\ after[key] =
                                             Written(cfg[kids[item][r][2]], key, i - 1, n)

\* C2 witness: a node holds two Modifier children that write "color"
\* differently, and every instruction carries the later one's colour.
C2_Witness ==
    \E item \in Plottables :
        LET rows == Setters(item, "color")
        IN  /\ Cardinality(rows) = 2
            /\ \E r1, r2 \in rows :
                 /\ r1 < r2
                 /\ cfg[kids[item][r1][2]].class = "TrendModifier"
                 /\ cfg[kids[item][r2][2]].class = "DataModifier"
            /\ PI(item).ok
            /\ Len(PI(item).val) >= 2
            /\ \A i \in 1..Len(PI(item).val) :
                 PI(item).val[i].plot_keywords["color"] = Str("b")

\* the sum of the lengths of plot_instructions() of the first `upto`
\* children of `item` that are counted
RECURSIVE LengthBefore(_, _, _)
LengthBefore(item, upto, counted) ==
    IF upto = 0 THEN 0
    ELSE LengthBefore(item, upto - 1, counted)
           + (IF Kind(kids[item][upto]) \in counted
              THEN Len(PI(kids[item][upto]).val) ELSE 0)

\* `item` flattens its counted children in child order
FlattensInOrder(item, counted) ==
    LET ref == RPI(item)
        rows == {r \in 1..Len(kids[item]) : Kind(kids[item][r]) \in counted}
    IN  /\ ref.ok = (\A r \in rows : PI(kids[item][r]).ok)
        /\ ref.ok =>
            /\ Len(ref.val) = LengthBefore(item, Len(kids[item]), counted)
            /\ \A r \in rows :
                 LET off == LengthBefore(item, r - 1, counted)
                     part == PI(kids[item][r]).val
                 IN  \A i \in 1..Len(part) : ref.val[off + i] = part[i]

\* C3: the referenced instructions of a TrendItem are the instructions of
\* its DataLink children, and those of a Plot the instructions of all its
\* Plottable children, one child after the other in child order.
C3_FlattenInChildOrder ==
    /\ \A t \in TrendItems : FlattensInOrder(t, {"DataLink"})
    /\ \A i \in 1..Len(Plots) :
          FlattensInOrder(Plots[i],
              {"DataItem", "DataLink", "TrendItem", "TrendLink", "Plot"})

\* C3 witness: the two links of plot1 were swapped by a drop, and the series
\* are swapped with them.
C3_Witness ==
    /\ kids[Plot(1)] = <<DataLink(6), DataLink(5)>>
    /\ RPI(Plot(1)).ok
    /\ [i \in 1..2 |-> RPI(Plot(1)).val[i].y] = <<DataY(DataItem(1)), DataY(DataItem(0))>>

\* the Modifier children of `item`, in child order
ModifierRows(item) == {r \in 1..Len(kids[item]) : IsModifier(kids[item][r])}

\* what the Modifier children of `item` above row r make of its referenced
\* instructions
Above(item, r) ==
    ApplyChain(cfg, SelectSeq(SubSeq(kids[item], 1, r - 1), IsModifier), RPI(item))

\* colour is the sample of `scheme` at position num/den
At(colour, scheme, num, den) ==
    /\ colour[1] = "rgba" /\ colour[2] = scheme
    /\ colour[4] > 0 /\ colour[3] * den = num * colour[4]

\* C4: a TrendModifier given n >= 2 instructions colours the one at 0-based
\* index i with its colormap's sample at i/(n-1), whatever colour it had:
\* the positions rise strictly from 0 to 1; and a Plot whose only Modifier
\* is a TrendModifier over two instructions colours them at 0 and 1, in the
\* order of its children.
C4_TrendPositions ==
    \A item \in Plottables : \A r \in ModifierRows(item) :
        LET m == cfg[kids[item][r][2]]
            inp == Above(item, r)
            n == Len(inp.val)
            out == apply_modifier(m, inp.val)
            colour(i) == out.val[i + 1].plot_keywords["color"]
        IN  (m.class = "TrendModifier" /\ inp.ok /\ n >= 2) =>
              /\ out.ok /\ Len(out.val) = n
              /\ \A i \in 0..(n - 1) : At(colour(i), m.color_scheme, i, n - 1)
              /\ colour(0) = cmap(m.color_scheme, <<0, 1>>)
              /\ colour(n - 1) = cmap(m.color_scheme, <<1, 1>>)
              /\ \A i \in 0..(n - 2) :
                    colour(i)[3] * colour(i + 1)[4] < colour(i + 1)[3] * colour(i)[4]
              /\ (ModifierRows(item) = {r} /\ n = 2) =>
                    \A i \in 1..2 :
                        PI(item).val[i] =
                            PlotInstruction(
                                SetItem(RPI(item).val[i].plot_keywords, "color",
                                        cmap(m.color_scheme, <<i - 1, 1>>)),
                                RPI(item).val[i].x, RPI(item).val[i].y)

\* C4 witness: plot1 holds its two links, to datas[0] and to datas[1] which
\* carries color='b', and a Jet modifier: two series, coloured at 0 and 1.
C4_Witness ==
    /\ SelectSeq(kids[Plot(1)], IsPlottable) = <<DataLink(5), DataLink(6)>>
    /\ \E r \in ModifierRows(DataItem(1)) :
          cfg[kids[DataItem(1)][r][2]] = DataModifier("b", None)
    /\ PI(DataLink(6)).ok
    /\ PI(DataLink(6)).val[1].plot_keywords = [key \in {"color"} |-> Str("b")]
    /\ \E r \in ModifierRows(Plot(1)) : cfg[kids[Plot(1)][r][2]] = TrendModifier("jet")
    /\ PI(Plot(1)).ok
    /\ [i \in 1..2 |-> PI(Plot(1)).val[i].y] = <<0, 1>>
    /\ [i \in 1..2 |-> PI(Plot(1)).val[i].plot_keywords["color"]]
          = <<cmap("jet", <<0, 1>>), cmap("jet", <<1, 1>>)>>

\* C5 as stated: a TrendModifier applied to a list of one instruction
\* completes without an arithmetic fault, and applied to an empty list
\* returns an empty list.
C5_DegenerateTrendCompletes ==
    (m_pc = "done" /\ m_self.class = "TrendModifier" /\ Len(m_in) <= 1) =>
        /\ m_res.ok
        /\ Len(m_in) = 0 => m_res.val = <<>>

\* C6 as stated: when the handler of a drop event or of a button press has
\* completed, every one of the four plots shows its plot_instructions() for
\* the tree as it is: no plot is stale.
C6_NoStalePlot ==
    last.handler \in {"dropEvent", "clicked"} =>
        \A i \in 1..Len(Plots) :
            /\ PI(Plots[i]).ok
            /\ shown[Plots[i]] = Drawn(PI(Plots[i]).val)

\* C7 as stated: when updatePlots ran and the plot_instructions() of one
\* Plot raised, every other Plot shows what it would show had the failing
\* Plot been absent: its own plot_instructions() for the tree as it is.
C7_SiblingsUnaffected ==
    (last.handler = "dropEvent" /\ last.raised) =>
        \A i \in 1..Len(Plots) :
            PI(Plots[i]).ok => shown[Plots[i]] = Drawn(PI(Plots[i]).val)

AllKeys == {"color", "linestyle", "marker"}

\* C8: DataModifier.apply_modifier returns as many instructions as it was
\* given, in the same order and with the same X and Y; a key other than a
\* configured color or linestyle is present or absent, and valued, as in the
\* input; and the list passed and the dicts in it are as they were.
C8_DataModifierFrame ==
    (m_pc = "done" /\ m_self.class = "DataModifier") =>
        /\ m_res.ok
        /\ Len(m_res.val) = Len(m_in)
        /\ \A i \in 1..Len(m_in) :
             /\ m_res.val[i].x = m_in[i].x
             /\ m_res.val[i].y = m_in[i].y
             /\ DOMAIN m_res.val[i].plot_keywords \subseteq AllKeys
             /\ \A key \in AllKeys :
                  LET before == m_in[i].plot_keywords
                      after == m_res.val[i].plot_keywords
                  IN  ~Sets(m_self, key) =>
                        /\ (key \in DOMAIN after) = (key \in DOMAIN before)
                        /\ key \in DOMAIN before => after[key] = before[key]
        /\ m_arg = m_in

\* C8 witness: a modifier with a color and no linestyle was applied to two
\* or more instructions, one holding a color, a linestyle that stayed, and
\* the color was replaced.
C8_Witness ==
    /\ m_pc = "done"
    /\ m_self = DataModifier("r", None)
    /\ Len(m_in) >= 2
    /\ \E i \in 1..Len(m_in) :
         /\ DOMAIN m_in[i].plot_keywords = {"color", "linestyle"}
         /\ m_res.val[i].plot_keywords["color"] = Str("r")
         /\ m_res.val[i].plot_keywords["linestyle"] = m_in[i].plot_keywords["linestyle"]
         /\ m_in[i].plot_keywords["color"] # Str("r")

\* the appearance the hierarchy is meant to give `self`: each field from the
\* nearest container on the way to the root that sets it, else the root's
RECURSIVE Inherited(_)
Inherited(self) ==
    IF self = Root THEN Appearance("k", "jet")
    ELSE override(Inherited(a_parent[self]), a_own[self])

\* what the code yields for the appearance of `self`: called, read as an
\* attribute, or through the function of its class
Readings(self) ==
    {GetAppearance(self), ClassAppearance(self)}
        \cup (IF CallAppearance(self).ok THEN {CallAppearance(self).val} ELSE {})

\* C9 as stated: the appearance of every container of a hierarchy rooted at
\* Default has no null field, each field being that of the nearest container
\* up to the root that sets it, else the root's 'k' and 'jet' (here: in at
\* least one of the ways the code offers to read it).
C9_AppearanceResolves ==
    \A self \in Containers :
        \E a \in Readings(self) :
            /\ a.colour # None /\ a.trend_scheme # None
            /\ a = Inherited(self)

\* C10: in every tree the drops and buttons reach, plot_instructions() of
\* every Plottable returns (or raises) after finitely many calls: no chain
\* of calls through children and link sources comes back to an item.
C10_PlotInstructionsTerminates ==
    \A item \in Plottables : PI(item).err # "RecursionError"

\* C10 witness: a TrendLink was dropped under its own source, and the plot
\* holding it is drawn all the same.
C10_Witness ==
    \E l \in TrendLinks :
        /\ Parent(kids, l) = src(l)
        /\ \A i \in 1..Len(Plots) : PI(Plots[i]).ok

----------------------------------------------------------------------------
====
